---------------------------- MODULE Spec2Model ----------------------------
(***************************************************************************)
(* Model of ravenfall/frontend/lexer.py: tokenize(source_code).            *)
(*                                                                         *)
(* A character is a one-character string (or the name of its code point),  *)
(* a text is a sequence of characters, and ''.join(list) is the list.  One action is one    *)
(* iteration of the `while chars:` dispatcher loop (one branch of the      *)
(* if/elif chain), plus one action for the append of EOF and the return.   *)
(***************************************************************************)
EXTENDS Integers, Sequences, FiniteSets, TLC

VARIABLES source_code,        \* the argument of tokenize
          chars,              \* the unconsumed characters
          token_stream,       \* the tokens appended so far
          any_bracket_level,  \* signed bracket counter
          last_indent_level,  \* indentation level of the last handled line
          pc,                 \* "loop" | "returned" | "raised"
          err                 \* "none" or the exception raised

vars == <<source_code, chars, token_stream, any_bracket_level,
          last_indent_level, pc, err>>

----------------------------------------------------------------------------
(* Bounds of the input space.                                              *)

MaxLen == 4
MaxChunks == 6
MaxBrackets == 4
MaxSpaces == 8

(* Program constant: the number of spaces of one indentation unit.         *)
IndentWidth == 4

----------------------------------------------------------------------------
(* Tokens and character classes.                                           *)

Token(value, type) == [value |-> value, type |-> type]

token_map ==
  [c \in {"=", "+", "-", "*", "/", "%", ".", ",", ":",
          "(", ")", "{", "}", "[", "]"} |->
     CASE c = "=" -> "EQUALS"
       [] c = "+" -> "ADD"
       [] c = "-" -> "SUBTRACT"
       [] c = "*" -> "MULTIPLY"
       [] c = "/" -> "DIVIDE"
       [] c = "%" -> "MODULO"
       [] c = "." -> "PERIOD"
       [] c = "," -> "COMMA"
       [] c = ":" -> "COLON"
       [] c = "(" -> "OPEN_PAREN"
       [] c = ")" -> "CLOSE_PAREN"
       [] c = "{" -> "OPEN_BRACE"
       [] c = "}" -> "CLOSE_BRACE"
       [] c = "[" -> "OPEN_BRACKET"
       [] c = "]" -> "CLOSE_BRACKET"]

KEYWORDS == (<<"l", "e", "t">> :> "LET") @@ (<<"m", "u", "t">> :> "MUT")

Booleans == {<<"t", "r", "u", "e">>, <<"f", "a", "l", "s", "e">>}

Quotes == {"'", "\""}
OpenBrackets == {"(", "{", "["}
CloseBrackets == {")", "}", "]"}

Digits == {"0", "1", "2", "3", "4", "5", "6", "7", "8", "9"}
Letters == {"a", "b", "c", "d", "e", "f", "g", "h", "i", "j", "k", "l", "m",
            "n", "o", "p", "q", "r", "s", "t", "u", "v", "w", "x", "y", "z",
            "A", "B", "C", "D", "E", "F", "G", "H", "I", "J", "K", "L", "M",
            "N", "O", "P", "Q", "R", "S", "T", "U", "V", "W", "X", "Y", "Z"}

(* A character that str.isnumeric accepts and that is not a digit: the     *)
(* vulgar fraction one half, written here by its code point (isnumeric     *)
(* and isalnum hold of it, isdigit, isdecimal and isalpha do not).         *)
OtherNumerics == {"U+00BD"}

(* str.isnumeric, str.isalpha and str.isalnum on the characters above.     *)
isnumeric(c) == c \in Digits \cup OtherNumerics
isalpha(c) == c \in Letters
isalnum(c) == c \in Letters \cup Digits \cup OtherNumerics

----------------------------------------------------------------------------
(* The scan loops, computed as the code computes them.                     *)

Spaces(n) == [i \in 1..n |-> " "]

Prefix(cs, n) == SubSeq(cs, 1, IF Len(cs) < n THEN Len(cs) ELSE n)
Drop(cs, n) == SubSeq(cs, n + 1, Len(cs))

(* Variant: every single space counts as one indentation unit.             *)
RECURSIVE IndentLoopPerSpace(_, _)
IndentLoopPerSpace(cs, indent_level) ==
  IF cs # <<>> /\ Head(cs) = " "
    THEN IndentLoopPerSpace(Tail(cs), indent_level + 1)
    ELSE [chars |-> cs, indent_level |-> indent_level]

(* while chars[:4] == [' ',]*4: del chars[:4]; indent_level += 1           *)
RECURSIVE IndentLoop(_, _)
IndentLoop(cs, indent_level) ==
  IF Prefix(cs, IndentWidth) = Spaces(IndentWidth)
    THEN IndentLoop(Drop(cs, IndentWidth), indent_level + 1)
    ELSE [chars |-> cs, indent_level |-> indent_level]

(* Variant: the NEWLINE token is built with an empty value.                 *)
NewlineTokenEmpty == Token(<<>>, "NEWLINE")

(* Token(newline, TokenType.NEWLINE), newline being the popped character.  *)
NewlineToken == Token(<<"\n">>, "NEWLINE")

(* Variant: newlines are suppressed at depth 0 as well.                    *)
InsideBracketsOrTop(level) == level >= 0

(* Variant: suppression only from the second nesting level on.            *)
InsideNestedBrackets(level) == level > 1

(* if any_bracket_level > 0: continue                                      *)
InsideBrackets(level) == level > 0

(* Variant: the difference compared with the wrong sign.                  *)
too_much_indent_sign(last, indent_level) == last - indent_level # 1

(* too_much_indent = last_indent_level - indent_level != -1                *)
too_much_indent(last, indent_level) == last - indent_level # -1

(* Variant: `if` in place of `while`, a single DEDENT per newline.         *)
DedentOnce(indent_level, last, ts) ==
  IF indent_level < last
    THEN [last_indent_level |-> last - 1,
          token_stream |-> Append(ts, Token(<<>>, "DEDENT"))]
    ELSE [last_indent_level |-> last, token_stream |-> ts]

(* Variant: the level is set to the candidate with a single DEDENT.        *)
DedentJump(indent_level, last, ts) ==
  IF indent_level < last
    THEN [last_indent_level |-> indent_level,
          token_stream |-> Append(ts, Token(<<>>, "DEDENT"))]
    ELSE [last_indent_level |-> last, token_stream |-> ts]

(* while indent_level < last_indent_level: last -= 1; append DEDENT        *)
RECURSIVE DedentLoop(_, _, _)
DedentLoop(indent_level, last, ts) ==
  IF indent_level < last
    THEN DedentLoop(indent_level, last - 1, Append(ts, Token(<<>>, "DEDENT")))
    ELSE [last_indent_level |-> last, token_stream |-> ts]

(* Variant: either quote style closes the literal.                        *)
RECURSIVE StringLoopAnyQuote(_, _, _)
StringLoopAnyQuote(cs, quote_type, full_string) ==
  IF cs = <<>>
    THEN [raised |-> TRUE, chars |-> cs, full_string |-> full_string]
    ELSE IF Head(cs) \notin Quotes
      THEN StringLoopAnyQuote(Tail(cs), quote_type,
                              Append(full_string, Head(cs)))
      ELSE [raised |-> FALSE, chars |-> Tail(cs), full_string |-> full_string]

(* Variant: the end of the input closes the literal.                       *)
RECURSIVE StringLoopToEnd(_, _, _)
StringLoopToEnd(cs, quote_type, full_string) ==
  IF cs = <<>>
    THEN [raised |-> FALSE, chars |-> cs, full_string |-> full_string]
    ELSE IF Head(cs) # quote_type
      THEN StringLoopToEnd(Tail(cs), quote_type, Append(full_string, Head(cs)))
      ELSE [raised |-> FALSE, chars |-> Tail(cs), full_string |-> full_string]

(* while chars[0] != quote_type: full_string.append(chars.pop(0))          *)
(* chars[0] on the empty list raises IndexError.                           *)
RECURSIVE StringLoop(_, _, _)
StringLoop(cs, quote_type, full_string) ==
  IF cs = <<>>
    THEN [raised |-> TRUE, chars |-> cs, full_string |-> full_string]
    ELSE IF Head(cs) # quote_type
      THEN StringLoop(Tail(cs), quote_type, Append(full_string, Head(cs)))
      ELSE [raised |-> FALSE, chars |-> Tail(cs), full_string |-> full_string]

(* while chars and (chars[0].isnumeric() or chars[0] == '.'): ...          *)
RECURSIVE NumberLoop(_, _, _)
NumberLoop(cs, full_number, period_found) ==
  IF cs # <<>> /\ (isnumeric(Head(cs)) \/ Head(cs) = ".")
    THEN IF period_found /\ ~isnumeric(Head(cs))
           THEN [chars |-> cs, full_number |-> full_number,
                 period_found |-> period_found]
           ELSE NumberLoop(Tail(cs), Append(full_number, Head(cs)),
                           period_found \/ Head(cs) = ".")
    ELSE [chars |-> cs, full_number |-> full_number,
          period_found |-> period_found]

(* while chars and (chars[0].isalnum() or chars[0] in '_'): ...            *)
RECURSIVE WordLoop(_, _)
WordLoop(cs, full_value) ==
  IF cs # <<>> /\ (isalnum(Head(cs)) \/ Head(cs) = "_")
    THEN WordLoop(Tail(cs), Append(full_value, Head(cs)))
    ELSE [chars |-> cs, full_value |-> full_value]

(* Variant: the check for booleans is left out.                            *)
WordTypeNoBoolean(value) ==
  IF value \in DOMAIN KEYWORDS THEN KEYWORDS[value] ELSE "IDENTIFIER"

(* The token type of a scanned word.                                       *)
WordType(value) ==
  IF value \in Booleans THEN "BOOLEAN"
  ELSE IF value \in DOMAIN KEYWORDS THEN KEYWORDS[value]
  ELSE "IDENTIFIER"

----------------------------------------------------------------------------
(* The dispatcher: one action per branch of the if/elif chain.             *)

Looping == pc = "loop" /\ chars # <<>>

(* Variant: the space is seen but not popped.                             *)
SkipSpaceNoPop ==
  /\ Looping /\ Head(chars) = " "
  /\ UNCHANGED vars

SkipSpace ==
  /\ Looping /\ Head(chars) = " "
  /\ chars' = Tail(chars)
  /\ UNCHANGED <<source_code, token_stream, any_bracket_level,
                 last_indent_level, pc, err>>

Newline ==
  /\ Looping /\ Head(chars) = "\n"
  /\ LET scan == IndentLoop(Tail(chars), 0)
         indent_level == scan.indent_level
         with_newline == Append(token_stream, NewlineToken)
     IN /\ chars' = scan.chars
        /\ IF InsideBrackets(any_bracket_level)
             THEN UNCHANGED <<token_stream, last_indent_level, pc, err>>
           ELSE IF /\ indent_level > last_indent_level
                   /\ too_much_indent(last_indent_level, indent_level)
             THEN /\ token_stream' = with_newline
                  /\ pc' = "raised"
                  /\ err' = "IndentationError"
                  /\ UNCHANGED last_indent_level
           ELSE IF indent_level > last_indent_level
             THEN /\ token_stream' = Append(with_newline, Token(<<>>, "INDENT"))
                  /\ last_indent_level' = indent_level
                  /\ UNCHANGED <<pc, err>>
           ELSE LET d == DedentLoop(indent_level, last_indent_level, with_newline)
                IN /\ token_stream' = d.token_stream
                   /\ last_indent_level' = d.last_indent_level
                   /\ UNCHANGED <<pc, err>>
  /\ UNCHANGED <<source_code, any_bracket_level>>

(* Variant: brackets between the quotes move the bracket counter.          *)
StringCountingBrackets ==
  /\ Looping /\ Head(chars) \in Quotes
  /\ LET scan == StringLoop(Tail(chars), Head(chars), <<>>)
         body == scan.full_string
     IN /\ chars' = scan.chars
        /\ any_bracket_level' =
             any_bracket_level
               + Cardinality({i \in DOMAIN body : body[i] \in OpenBrackets})
               - Cardinality({i \in DOMAIN body : body[i] \in CloseBrackets})
        /\ IF scan.raised
             THEN /\ pc' = "raised"
                  /\ err' = "IndexError"
                  /\ UNCHANGED token_stream
             ELSE /\ token_stream' = Append(token_stream, Token(body, "STRING"))
                  /\ UNCHANGED <<pc, err>>
  /\ UNCHANGED <<source_code, last_indent_level>>

String ==
  /\ Looping /\ Head(chars) \in Quotes
  /\ LET scan == StringLoop(Tail(chars), Head(chars), <<>>)
     IN /\ chars' = scan.chars
        /\ IF scan.raised
             THEN /\ pc' = "raised"
                  /\ err' = "IndexError"
                  /\ UNCHANGED token_stream
             ELSE /\ token_stream' =
                       Append(token_stream, Token(scan.full_string, "STRING"))
                  /\ UNCHANGED <<pc, err>>
  /\ UNCHANGED <<source_code, any_bracket_level, last_indent_level>>

(* Variant: a closing bracket does not take the counter below 0.           *)
SymbolNoUnderflow ==
  /\ Looping /\ Head(chars) \in DOMAIN token_map
  /\ any_bracket_level' =
       IF Head(chars) \in OpenBrackets THEN any_bracket_level + 1
       ELSE IF Head(chars) \in CloseBrackets /\ any_bracket_level > 0
         THEN any_bracket_level - 1
       ELSE any_bracket_level
  /\ token_stream' =
       Append(token_stream, Token(<<Head(chars)>>, token_map[Head(chars)]))
  /\ chars' = Tail(chars)
  /\ UNCHANGED <<source_code, last_indent_level, pc, err>>

Symbol ==
  /\ Looping /\ Head(chars) \in DOMAIN token_map
  /\ any_bracket_level' =
       IF Head(chars) \in OpenBrackets THEN any_bracket_level + 1
       ELSE IF Head(chars) \in CloseBrackets THEN any_bracket_level - 1
       ELSE any_bracket_level
  /\ token_stream' =
       Append(token_stream, Token(<<Head(chars)>>, token_map[Head(chars)]))
  /\ chars' = Tail(chars)
  /\ UNCHANGED <<source_code, last_indent_level, pc, err>>

Number ==
  /\ Looping /\ isnumeric(Head(chars))
  /\ LET scan == NumberLoop(chars, <<>>, FALSE)
     IN /\ chars' = scan.chars
        /\ token_stream' =
             Append(token_stream,
                    Token(scan.full_number,
                          IF scan.period_found THEN "FLOAT" ELSE "INT"))
  /\ UNCHANGED <<source_code, any_bracket_level, last_indent_level, pc, err>>

Word ==
  /\ Looping /\ isalpha(Head(chars))
  /\ LET scan == WordLoop(chars, <<>>)
     IN /\ chars' = scan.chars
        /\ token_stream' =
             Append(token_stream,
                    Token(scan.full_value, WordType(scan.full_value)))
  /\ UNCHANGED <<source_code, any_bracket_level, last_indent_level, pc, err>>

Unrecognized ==
  /\ Looping
  /\ Head(chars) # " " /\ Head(chars) # "\n"
  /\ Head(chars) \notin Quotes
  /\ Head(chars) \notin DOMAIN token_map
  /\ ~isnumeric(Head(chars)) /\ ~isalpha(Head(chars))
  /\ pc' = "raised"
  /\ err' = "Exception"
  /\ UNCHANGED <<source_code, chars, token_stream, any_bracket_level,
                 last_indent_level>>

(* Variant: the last line is closed with a NEWLINE before the EOF token.   *)
ReturnClosingLine ==
  /\ pc = "loop" /\ chars = <<>>
  /\ token_stream' =
       token_stream \o <<Token(<<>>, "NEWLINE"), Token(<<>>, "EOF")>>
  /\ pc' = "returned"
  /\ UNCHANGED <<source_code, chars, any_bracket_level, last_indent_level, err>>

(* Variant: the stream is returned without the EOF token.                 *)
ReturnWithoutEOF ==
  /\ pc = "loop" /\ chars = <<>>
  /\ pc' = "returned"
  /\ UNCHANGED <<source_code, chars, token_stream, any_bracket_level,
                 last_indent_level, err>>

(* token_stream.append(Token('', TokenType.EOF)); return token_stream      *)
Return ==
  /\ pc = "loop" /\ chars = <<>>
  /\ token_stream' = Append(token_stream, Token(<<>>, "EOF"))
  /\ pc' = "returned"
  /\ UNCHANGED <<source_code, chars, any_bracket_level, last_indent_level, err>>

Next ==
  \/ SkipSpace
  \/ Newline
  \/ String
  \/ Symbol
  \/ Number
  \/ Word
  \/ Unrecognized
  \/ Return

----------------------------------------------------------------------------
(* Inputs: every concatenation of at most n pieces of a set of pieces.     *)

RECURSIVE Concat(_)
Concat(pieces) ==
  IF pieces = <<>> THEN <<>> ELSE Head(pieces) \o Concat(Tail(pieces))

Texts(pieces, n) ==
  {Concat(p) : p \in UNION {[1..k -> pieces] : k \in 0..n}}

(* Lexical pieces: one character of every class of the dispatcher, a       *)
(* numeric character that is not a digit, and the reserved words let and   *)
(* true.                                                                   *)
LexPieces ==
  {<<" ">>, <<"\n">>, <<"'">>, <<"\"">>, <<"(">>, <<"1">>, <<".">>, <<"U+00BD">>,
   <<"a">>, <<"_">>, <<"\t">>, <<"l", "e", "t">>, <<"t", "r", "u", "e">>}

(* Layout pieces: newlines, indentation units, parentheses and a word.     *)
LayoutPieces ==
  {<<"\n">>, Spaces(IndentWidth), <<"(">>, <<")">>, <<"a">>}

(* Space pieces: newlines, single spaces and a word, for lines indented    *)
(* by any number of spaces.                                                *)
SpacePieces == {<<"\n">>, <<" ">>, <<"a">>}

(* Bracket pieces: the three kinds of brackets, a newline and a word.      *)
BracketPieces ==
  {<<"(">>, <<")">>, <<"[">>, <<"]">>, <<"{">>, <<"}">>, <<"\n">>, <<"a">>}

(* A few whole programs that use every scan mode.                          *)
Samples ==
  {<<"l", "e", "t", " ", "x", " ", "=", " ", "5">>,
   <<"3", ".", "1", "4">>,
   <<"(", "\n", " ", " ", " ", " ", "1", "\n", ")">>,
   <<"x", " ", "=", " ", "'", "h", "i", "'">>,
   <<"x", "\n", "\t", "y">>}

InitWith(inputs) ==
  /\ source_code \in inputs
  /\ chars = source_code
  /\ token_stream = <<>>
  /\ any_bracket_level = 0
  /\ last_indent_level = 0
  /\ pc = "loop"
  /\ err = "none"

Init == InitWith(Texts(LexPieces, MaxLen))
InitLayout == InitWith(Texts(LayoutPieces, MaxChunks) \cup Samples)
InitBrackets == InitWith(Texts(BracketPieces, MaxBrackets) \cup Samples)
InitSpaces == InitWith(Texts(SpacePieces, MaxSpaces) \cup Samples)

Spec == Init /\ [][Next]_vars
SpecLayout == InitLayout /\ [][Next]_vars
SpecBrackets == InitBrackets /\ [][Next]_vars
SpecSpaces == InitSpaces /\ [][Next]_vars

(* The program is sequential: a step that can be taken is taken.           *)
FairSpec == Init /\ [][Next]_vars /\ WF_vars(Next)

----------------------------------------------------------------------------
(* Vocabulary of the properties.                                           *)

Types(ts) == [i \in DOMAIN ts |-> ts[i].type]
Count(ts, types) == Cardinality({i \in DOMAIN ts : ts[i].type \in types})
Structural == {"NEWLINE", "INDENT", "DEDENT"}
Repeat(x, n) == [i \in 1..n |-> x]

(* The characters consumed so far: chars is always a suffix of the input.  *)
Consumed == SubSeq(source_code, 1, Len(source_code) - Len(chars))
EndsWith(s, t) ==
  Len(t) <= Len(s) /\ SubSeq(s, Len(s) - Len(t) + 1, Len(s)) = t

(* The candidate indentation of a line, from the number of its leading     *)
(* spaces.                                                                 *)
LeadingSpaces(cs) ==
  CHOOSE n \in 0..Len(cs) :
    /\ \A i \in 1..n : cs[i] = " "
    /\ n < Len(cs) => cs[n + 1] # " "
Candidate(cs) == LeadingSpaces(cs) \div IndentWidth

AtNewline == pc = "loop" /\ chars # <<>> /\ Head(chars) = "\n"

(* An exception ends the call: no step leaves a state with pc = "raised".  *)
RaisedIsFinal == pc = "raised" => pc' = "raised" /\ token_stream' = token_stream

----------------------------------------------------------------------------
(* C1: a returned token sequence is non-empty, its last element is an EOF  *)
(* token with empty value, it holds exactly one EOF token and so no token  *)
(* follows the EOF.                                                        *)
C1_EndsWithOneEOF ==
  pc = "returned" =>
    /\ Len(token_stream) > 0
    /\ token_stream[Len(token_stream)] = Token(<<>>, "EOF")
    /\ Count(token_stream, {"EOF"}) = 1

C1_Witness ==
  /\ pc = "returned"
  /\ Len(token_stream) >= 3
  /\ token_stream[Len(token_stream)].type = "EOF"

----------------------------------------------------------------------------
(* C2: between an opening parenthesis and its matching closing             *)
(* parenthesis no structural token (NEWLINE, INDENT, DEDENT) is produced.  *)
(* The statement is about the token stream: token j closes token i when    *)
(* it is the first CLOSE_PAREN after i at which the parentheses opened     *)
(* from i on are all closed.                                               *)
ParenBalance(ts, i, j) ==
  Cardinality({m \in i..j : ts[m].type = "OPEN_PAREN"})
    - Cardinality({m \in i..j : ts[m].type = "CLOSE_PAREN"})

MatchingParen(ts, i, j) ==
  /\ ts[i].type = "OPEN_PAREN"
  /\ ts[j].type = "CLOSE_PAREN"
  /\ ParenBalance(ts, i, j) = 0
  /\ \A m \in i..(j - 1) : ParenBalance(ts, i, m) > 0

C2_BracketSuppression ==
  \A i \in DOMAIN token_stream : \A j \in DOMAIN token_stream :
    (i < j /\ MatchingParen(token_stream, i, j)) =>
      \A k \in (i + 1)..(j - 1) : token_stream[k].type \notin Structural

----------------------------------------------------------------------------
(* C3: a newline handled while bracket_depth > 0 consumes the newline and  *)
(* every following run of exactly 4 spaces, appends no token, leaves       *)
(* indent_level and bracket_depth unchanged and raises nothing, whatever   *)
(* the candidate indentation is.                                           *)
C3_Step ==
  (AtNewline /\ any_bracket_level > 0) =>
    /\ token_stream' = token_stream
    /\ last_indent_level' = last_indent_level
    /\ any_bracket_level' = any_bracket_level
    /\ pc' = "loop" /\ err' = "none"
    /\ \E k \in 0..Len(chars) :
         /\ chars = <<"\n">> \o Spaces(IndentWidth * k) \o chars'
         /\ Prefix(chars', IndentWidth) # Spaces(IndentWidth)

C3_SuppressedNewline == [][C3_Step]_vars

(* A newline followed by two indentation units was handled inside a        *)
(* bracket at indentation level 0.                                         *)
C3_Witness ==
  /\ pc = "loop"
  /\ any_bracket_level > 0
  /\ last_indent_level = 0
  /\ EndsWith(Consumed, <<"\n">> \o Spaces(2 * IndentWidth))
  /\ Count(token_stream, Structural) = 0

----------------------------------------------------------------------------
(* C4: a newline handled while bracket_depth <= 0 with a candidate         *)
(* indentation above indent_level appends NEWLINE, INDENT and sets         *)
(* indent_level to the candidate when the increase is 1, and raises        *)
(* IndentationError, returning nothing, when the increase is 2 or more.    *)
(* Hence no returned stream has two INDENT tokens after a NEWLINE.         *)
C4_Step ==
  (AtNewline /\ any_bracket_level <= 0
     /\ Candidate(Tail(chars)) > last_indent_level) =>
    IF Candidate(Tail(chars)) = last_indent_level + 1
      THEN /\ Types(token_stream') = Types(token_stream) \o <<"NEWLINE", "INDENT">>
           /\ last_indent_level' = Candidate(Tail(chars))
           /\ pc' = "loop" /\ err' = "none"
      ELSE /\ pc' = "raised" /\ err' = "IndentationError"

C4_OneIndentPerNewline ==
  pc = "returned" =>
    \A i \in DOMAIN token_stream :
      (i + 2 <= Len(token_stream) /\ token_stream[i].type = "NEWLINE"
         /\ token_stream[i + 1].type = "INDENT") =>
        token_stream[i + 2].type # "INDENT"

C4_IndentByOne ==
  /\ [][C4_Step]_vars
  /\ [][RaisedIsFinal]_vars
  /\ []C4_OneIndentPerNewline

(* An indentation by one unit was accepted and a later jump by two units   *)
(* was refused.                                                            *)
C4_Witness ==
  /\ pc = "raised" /\ err = "IndentationError"
  /\ last_indent_level = 1
  /\ Count(token_stream, {"INDENT"}) = 1

----------------------------------------------------------------------------
(* C5: a newline handled while bracket_depth <= 0 with a candidate         *)
(* indentation below indent_level appends one NEWLINE and exactly          *)
(* indent_level - candidate DEDENT tokens and sets indent_level to the     *)
(* candidate; with the candidate equal to indent_level it appends only     *)
(* the NEWLINE.                                                            *)
C5_Step ==
  (AtNewline /\ any_bracket_level <= 0
     /\ Candidate(Tail(chars)) <= last_indent_level) =>
    /\ Types(token_stream') =
         Types(token_stream) \o <<"NEWLINE">>
           \o Repeat("DEDENT", last_indent_level - Candidate(Tail(chars)))
    /\ last_indent_level' = Candidate(Tail(chars))
    /\ pc' = "loop" /\ err' = "none"

C5_Dedent == [][C5_Step]_vars

(* A drop by two levels at once has been handled.                          *)
C5_Witness ==
  /\ pc = "loop"
  /\ last_indent_level = 0
  /\ Len(token_stream) >= 3
  /\ SubSeq(Types(token_stream), Len(token_stream) - 2, Len(token_stream))
       = <<"NEWLINE", "DEDENT", "DEDENT">>

----------------------------------------------------------------------------
(* C6: in every state the number of INDENT tokens minus the number of      *)
(* DEDENT tokens equals indent_level, which is never negative; the return  *)
(* appends the EOF token only, so a returned stream may hold more INDENT   *)
(* than DEDENT tokens.                                                     *)
C6_Balance ==
  /\ last_indent_level >= 0
  /\ Count(token_stream, {"INDENT"}) - Count(token_stream, {"DEDENT"})
       = last_indent_level

C6_ReturnStep ==
  pc' = "returned" =>
    /\ Types(token_stream') = Types(token_stream) \o <<"EOF">>
    /\ last_indent_level' = last_indent_level

C6_IndentBalance == []C6_Balance /\ [][C6_ReturnStep]_vars

(* A stream was returned with indentation still open.                      *)
C6_Witness ==
  /\ pc = "returned"
  /\ last_indent_level > 0
  /\ Count(token_stream, {"INDENT"}) > Count(token_stream, {"DEDENT"})
  /\ Count(token_stream, {"DEDENT"}) > 0

----------------------------------------------------------------------------
(* C7: an input that is one run [A-Za-z_][A-Za-z0-9_]* other than true,    *)
(* false, let and mut yields one IDENTIFIER token whose value is the run,  *)
(* followed by EOF only.                                                   *)
ReservedWords ==
  {<<"t", "r", "u", "e">>, <<"f", "a", "l", "s", "e">>,
   <<"l", "e", "t">>, <<"m", "u", "t">>}

IsIdentifierRun(s) ==
  /\ Len(s) >= 1
  /\ s[1] \in Letters \cup {"_"}
  /\ \A i \in 2..Len(s) : s[i] \in Letters \cup Digits \cup {"_"}

C7_IdentifierRun ==
  (IsIdentifierRun(source_code) /\ source_code \notin ReservedWords) =>
    /\ pc # "raised"
    /\ pc = "returned" =>
         token_stream = <<Token(source_code, "IDENTIFIER"), Token(<<>>, "EOF")>>

----------------------------------------------------------------------------
(* C8: every dispatcher iteration consumes at least one character or       *)
(* fails, tokenize ends by returning or raising, and it returns only with  *)
(* the whole input consumed and a stream that ends in EOF.                 *)
C8_Step == (pc = "loop" /\ pc' = "loop") => Len(chars') < Len(chars)

C8_ReturnsWhole ==
  pc = "returned" =>
    /\ chars = <<>>
    /\ token_stream # <<>>
    /\ token_stream[Len(token_stream)].type = "EOF"

C8_Terminates ==
  /\ [][C8_Step]_vars
  /\ []C8_ReturnsWhole
  /\ <>(pc \in {"returned", "raised"})

(* A call that returned after several iterations.                          *)
C8_Witness ==
  /\ pc = "returned"
  /\ chars = <<>>
  /\ Len(source_code) >= 3
  /\ Len(token_stream) >= 3

----------------------------------------------------------------------------
(* C9: for an input that is a quote, a body without that quote, and the    *)
(* same quote, tokenize returns one STRING token whose value is the body,  *)
(* unchanged, followed by EOF; the body may be empty or hold the other     *)
(* quote.                                                                  *)
IsQuoted(s) ==
  /\ Len(s) >= 2
  /\ s[1] \in Quotes
  /\ s[Len(s)] = s[1]
  /\ \A i \in 2..(Len(s) - 1) : s[i] # s[1]

Body(s) == SubSeq(s, 2, Len(s) - 1)

C9_StringRoundTrip ==
  IsQuoted(source_code) =>
    /\ pc # "raised"
    /\ (pc = "loop" /\ chars = <<>>) =>
         token_stream = <<Token(Body(source_code), "STRING")>>
    /\ pc = "returned" =>
         token_stream =
           <<Token(Body(source_code), "STRING"), Token(<<>>, "EOF")>>

(* A literal whose body holds the other quote was returned.                *)
C9_Witness ==
  /\ pc = "returned"
  /\ IsQuoted(source_code)
  /\ Len(source_code) >= 4
  /\ \E i \in 2..(Len(source_code) - 1) :
       source_code[i] \in Quotes \ {source_code[1]}

----------------------------------------------------------------------------
(* C10: when a string literal is opened and no later character equals the  *)
(* opening quote, tokenize raises and returns nothing: no STRING token is  *)
(* appended for the literal, and no input with an unterminated literal is  *)
(* ever returned.                                                          *)
(* QuoteState reads the input as a two-state automaton: outside a literal  *)
(* a quote opens one, inside only the same quote closes it.                *)
RECURSIVE QuoteState(_, _)
QuoteState(s, open) ==
  IF s = <<>> THEN open
  ELSE IF open = "none"
    THEN QuoteState(Tail(s), IF Head(s) \in Quotes THEN Head(s) ELSE "none")
    ELSE QuoteState(Tail(s), IF Head(s) = open THEN "none" ELSE open)

C10_Step ==
  (/\ pc = "loop" /\ chars # <<>> /\ Head(chars) \in Quotes
   /\ \A i \in 2..Len(chars) : chars[i] # Head(chars)) =>
    /\ pc' = "raised"
    /\ token_stream' = token_stream

C10_NoReturn ==
  /\ pc = "returned" => QuoteState(source_code, "none") = "none"
  /\ (pc = "raised" /\ err = "IndexError") =>
       QuoteState(source_code, "none") # "none"

C10_UnterminatedString ==
  /\ [][C10_Step]_vars
  /\ [][RaisedIsFinal]_vars
  /\ []C10_NoReturn

(* An unterminated literal after some tokens made the call raise.          *)
C10_Witness ==
  /\ pc = "raised" /\ err = "IndexError"
  /\ Len(token_stream) >= 1
  /\ chars = <<>>

----------------------------------------------------------------------------
(* C11: number mode, entered on a digit, consumes the maximal run of       *)
(* digits with at most one decimal point and appends one token whose       *)
(* value is that run, FLOAT if the run holds a point and INT otherwise.    *)
(* Hence every INT value is a non-empty string of digits and every FLOAT   *)
(* value starts with a digit and holds exactly one point.                  *)
IsNumberRun(cs, n) ==
  /\ \A i \in 1..n : cs[i] \in Digits \cup {"."}
  /\ Cardinality({i \in 1..n : cs[i] = "."}) <= 1

NumberRunLen(cs) ==
  CHOOSE n \in 0..Len(cs) :
    IsNumberRun(cs, n) /\ (n = Len(cs) \/ ~IsNumberRun(cs, n + 1))

C11_Step ==
  (pc = "loop" /\ chars # <<>> /\ Head(chars) \in Digits) =>
    LET run == Prefix(chars, NumberRunLen(chars))
    IN /\ chars' = Drop(chars, NumberRunLen(chars))
       /\ token_stream' =
            Append(token_stream,
                   Token(run, IF \E i \in DOMAIN run : run[i] = "."
                                THEN "FLOAT" ELSE "INT"))
       /\ pc' = "loop"

C11_Values ==
  \A k \in DOMAIN token_stream :
    LET v == token_stream[k].value
    IN /\ token_stream[k].type = "INT" =>
            v # <<>> /\ \A i \in DOMAIN v : v[i] \in Digits
       /\ token_stream[k].type = "FLOAT" =>
            /\ v # <<>> /\ v[1] \in Digits
            /\ Cardinality({i \in DOMAIN v : v[i] = "."}) = 1

C11_NumberMode == [][C11_Step]_vars /\ []C11_Values

----------------------------------------------------------------------------
(* C12: word mode, entered on an alphabetic character, consumes the        *)
(* maximal run of alphanumeric characters and underscores and appends one  *)
(* token whose value is the run: BOOLEAN for true and false, LET for let,  *)
(* MUT for mut, IDENTIFIER for every other run, also for a run of which a  *)
(* reserved word is only a proper prefix.                                  *)
WordChars == Letters \cup Digits \cup OtherNumerics \cup {"_"}

WordRunLen(cs) ==
  CHOOSE n \in 0..Len(cs) :
    /\ \A i \in 1..n : cs[i] \in WordChars
    /\ n < Len(cs) => cs[n + 1] \notin WordChars

ClassOf(run) ==
  IF run = <<"t", "r", "u", "e">> \/ run = <<"f", "a", "l", "s", "e">>
    THEN "BOOLEAN"
  ELSE IF run = <<"l", "e", "t">> THEN "LET"
  ELSE IF run = <<"m", "u", "t">> THEN "MUT"
  ELSE "IDENTIFIER"

C12_Step ==
  (pc = "loop" /\ chars # <<>> /\ Head(chars) \in Letters) =>
    LET run == Prefix(chars, WordRunLen(chars))
    IN /\ chars' = Drop(chars, WordRunLen(chars))
       /\ token_stream' = Append(token_stream, Token(run, ClassOf(run)))
       /\ pc' = "loop"

C12_WordMode == [][C12_Step]_vars

(* A BOOLEAN was scanned, and an IDENTIFIER that starts with let.          *)
C12_Witness ==
  /\ \E k \in DOMAIN token_stream :
       /\ token_stream[k].type = "IDENTIFIER"
       /\ Len(token_stream[k].value) > 3
       /\ SubSeq(token_stream[k].value, 1, 3) = <<"l", "e", "t">>
  /\ \E k \in DOMAIN token_stream : token_stream[k].type = "BOOLEAN"

----------------------------------------------------------------------------
(* C13: when the next character of the dispatcher is not a space, a        *)
(* newline, a quote, one of the symbols =+-*/%.,:(){}[], a digit or an     *)
(* alphabetic character, tokenize raises the unrecognized-character error  *)
(* and returns nothing; a tab outside a string literal is such a           *)
(* character, a tab inside a string literal raises nothing.                *)
Dispatched ==
  {" ", "\n", "'", "\"", "=", "+", "-", "*", "/", "%", ".", ",", ":",
   "(", ")", "{", "}", "[", "]"} \cup Digits \cup Letters

C13_Step ==
  /\ (pc = "loop" /\ chars # <<>> /\ Head(chars) \notin Dispatched) =>
       pc' = "raised" /\ err' = "Exception"
  /\ (pc = "loop" /\ chars # <<>> /\ Head(chars) \in {"'", "\""}) =>
       err' # "Exception"

C13_Unrecognized == [][C13_Step]_vars /\ [][RaisedIsFinal]_vars

----------------------------------------------------------------------------
(* C14: for an input without newlines and without brackets no INDENT,      *)
(* DEDENT or NEWLINE token is produced and indent_level stays 0.           *)
NoNewlineNoBracket(s) ==
  \A i \in DOMAIN s : s[i] \notin {"\n", "(", ")", "{", "}", "[", "]"}

C14_NoStructure ==
  NoNewlineNoBracket(source_code) =>
    /\ Count(token_stream, Structural) = 0
    /\ last_indent_level = 0

(* Such an input, with spaces in it, was returned.                         *)
C14_Witness ==
  /\ pc = "returned"
  /\ NoNewlineNoBracket(source_code)
  /\ \E i \in DOMAIN source_code : source_code[i] = " "
  /\ Len(token_stream) >= 3

----------------------------------------------------------------------------
(* C15: bracket_depth always equals the number of opening-bracket tokens   *)
(* minus the number of closing-bracket tokens appended so far, whatever    *)
(* the kinds; a closing bracket at depth 0 or below is accepted, takes the *)
(* depth below 0 and the scan goes on to EOF.                              *)
OpenTypes == {"OPEN_PAREN", "OPEN_BRACE", "OPEN_BRACKET"}
CloseTypes == {"CLOSE_PAREN", "CLOSE_BRACE", "CLOSE_BRACKET"}

C15_Depth ==
  any_bracket_level =
    Count(token_stream, OpenTypes) - Count(token_stream, CloseTypes)

C15_Step ==
  (/\ pc = "loop" /\ chars # <<>> /\ Head(chars) \in {")", "}", "]"}
   /\ any_bracket_level <= 0) =>
    /\ pc' = "loop" /\ err' = "none"
    /\ any_bracket_level' = any_bracket_level - 1
    /\ any_bracket_level' < 0
    /\ chars' = Tail(chars)

C15_BracketCount == []C15_Depth /\ [][C15_Step]_vars

(* A stream with brackets of different kinds was returned at a negative    *)
(* depth.                                                                  *)
C15_Witness ==
  /\ pc = "returned"
  /\ any_bracket_level < 0
  /\ Count(token_stream, {"OPEN_PAREN"}) >= 1
  /\ Count(token_stream, {"CLOSE_BRACKET"}) >= 1
  /\ Count(token_stream, {"CLOSE_PAREN"}) = 0

----------------------------------------------------------------------------
(* C16: every structural token (INDENT, DEDENT, NEWLINE) of a returned     *)
(* stream has an empty value.                                              *)
C16_StructuralEmpty ==
  pc = "returned" =>
    \A k \in DOMAIN token_stream :
      token_stream[k].type \in Structural => token_stream[k].value = <<>>

(* C16 as amended: every INDENT and every DEDENT token of a returned       *)
(* stream has an empty value, and every NEWLINE token has the newline      *)
(* character as its value.                                                 *)
C16_StructuralValues ==
  pc = "returned" =>
    \A k \in DOMAIN token_stream :
      /\ token_stream[k].type \in {"INDENT", "DEDENT"} =>
           token_stream[k].value = <<>>
      /\ token_stream[k].type = "NEWLINE" => token_stream[k].value = <<"\n">>

(* A returned stream with the three structural tokens.                     *)
C16_Witness ==
  /\ pc = "returned"
  /\ Count(token_stream, {"NEWLINE"}) >= 2
  /\ Count(token_stream, {"INDENT"}) >= 1
  /\ Count(token_stream, {"DEDENT"}) >= 1

----------------------------------------------------------------------------
(* C17: the newline branch consumes 4 * floor(n / 4) of the n spaces that  *)
(* follow the newline and takes floor(n / 4) as the candidate              *)
(* indentation; the n mod 4 spaces left are popped one by one by the       *)
(* dispatcher with no token and no error.                                  *)
C17_Step ==
  /\ AtNewline =>
       LET n == LeadingSpaces(Tail(chars))
       IN /\ chars' = Drop(Tail(chars), IndentWidth * (n \div IndentWidth))
          /\ Prefix(chars', n % IndentWidth) = Spaces(n % IndentWidth)
          /\ (any_bracket_level <= 0 /\ pc' = "loop") =>
               last_indent_level' = n \div IndentWidth
          /\ pc' = "raised" =>
               (n \div IndentWidth) >= last_indent_level + 2
  /\ (pc = "loop" /\ chars # <<>> /\ Head(chars) = " ") =>
       /\ chars' = Tail(chars)
       /\ UNCHANGED <<token_stream, last_indent_level, any_bracket_level,
                      pc, err>>

C17_CandidateIndent == [][C17_Step]_vars

(* A line indented by 6 spaces was taken as indented by one unit, and the  *)
(* two spaces left were popped.                                            *)
C17_Witness ==
  /\ pc = "loop"
  /\ EndsWith(Consumed, <<"\n">> \o Spaces(IndentWidth + 2))
  /\ last_indent_level = 1
  /\ Len(token_stream) >= 2
  /\ SubSeq(Types(token_stream), Len(token_stream) - 1, Len(token_stream))
       = <<"NEWLINE", "INDENT">>

----------------------------------------------------------------------------
(* C18: the characters between the quotes of a string literal change       *)
(* neither bracket_depth nor indent_level and produce no token but the     *)
(* one STRING token, whose value holds them all: after the closing quote   *)
(* the scanner state is the state before the opening quote.                *)
ClosingQuote(cs) ==
  CHOOSE j \in 2..Len(cs) :
    cs[j] = cs[1] /\ \A i \in 2..(j - 1) : cs[i] # cs[1]

C18_Step ==
  (/\ pc = "loop" /\ chars # <<>> /\ Head(chars) \in {"'", "\""}
   /\ \E j \in 2..Len(chars) : chars[j] = chars[1]) =>
    /\ token_stream' =
         Append(token_stream,
                Token(SubSeq(chars, 2, ClosingQuote(chars) - 1), "STRING"))
    /\ chars' = Drop(chars, ClosingQuote(chars))
    /\ any_bracket_level' = any_bracket_level
    /\ last_indent_level' = last_indent_level
    /\ pc' = "loop" /\ err' = "none"

C18_StringFrame == [][C18_Step]_vars

(* A literal that holds a bracket and a newline, tab or space was scanned  *)
(* into a single STRING token at depth 0 and level 0.                      *)
C18_Witness ==
  /\ pc = "loop"
  /\ Len(token_stream) = 1
  /\ token_stream[1].type = "STRING"
  /\ \E i \in DOMAIN token_stream[1].value : token_stream[1].value[i] = "("
  /\ \E i \in DOMAIN token_stream[1].value :
       token_stream[1].value[i] \in {"\n", "\t", " "}
  /\ any_bracket_level = 0
  /\ last_indent_level = 0

----------------------------------------------------------------------------
(* C19: in every token stream every INDENT directly follows a NEWLINE,     *)
(* every DEDENT directly follows a NEWLINE or a DEDENT, an INDENT and a    *)
(* DEDENT are never adjacent, and every newline handled by the dispatcher  *)
(* while bracket_depth <= 0 adds exactly one NEWLINE token, blank lines    *)
(* included.                                                               *)
C19_Order ==
  \A k \in DOMAIN token_stream :
    LET t == token_stream[k].type
        before == IF k = 1 THEN "none" ELSE token_stream[k - 1].type
    IN /\ t = "INDENT" => before = "NEWLINE"
       /\ t = "DEDENT" => before \in {"NEWLINE", "DEDENT"}
       /\ ~(t = "INDENT" /\ before = "DEDENT")
       /\ ~(t = "DEDENT" /\ before = "INDENT")

C19_Step ==
  /\ (AtNewline /\ any_bracket_level <= 0) =>
       /\ Count(token_stream', {"NEWLINE"})
            = Count(token_stream, {"NEWLINE"}) + 1
       /\ Len(token_stream') > Len(token_stream)
       /\ token_stream'[Len(token_stream) + 1].type = "NEWLINE"
  /\ ~AtNewline =>
       Count(token_stream', {"NEWLINE"}) = Count(token_stream, {"NEWLINE"})

C19_StructuralOrder == []C19_Order /\ [][C19_Step]_vars

(* A blank line gave two NEWLINE tokens in a row, and later lines gave an  *)
(* INDENT and a DEDENT, each directly after its NEWLINE.                   *)
C19_Witness ==
  /\ \E k \in DOMAIN token_stream :
       /\ k + 2 <= Len(token_stream)
       /\ token_stream[k].type = "NEWLINE"
       /\ token_stream[k + 1].type = "NEWLINE"
       /\ token_stream[k + 2].type = "INDENT"
  /\ \E k \in DOMAIN token_stream :
       /\ k + 1 <= Len(token_stream)
       /\ token_stream[k].type = "NEWLINE"
       /\ token_stream[k + 1].type = "DEDENT"

=============================================================================
